---- MODULE Spec2Model ----
(***************************************************************************)
(* A model of collect.py: the Oura API client, the six dataset fetchers,   *)
(* the collection orchestrator (collect_all_data), the feature summary     *)
(* merger (create_feature_summary) and the entry point (main).             *)
(*                                                                         *)
(* Dates are proleptic Gregorian ordinals (datetime.date.toordinal), ISO   *)
(* date strings are sequences of one-character strings.  A DataFrame is a  *)
(* record [cols, rows]: the ordered column labels and the rows, each a     *)
(* function from column label to cell.  Cells the program never inspects   *)
(* are symbolic: the cell of column k in row i of dataset n is <<n, i, k>>,*)
(* so that the origin of every cell of a merged table can be told.         *)
(***************************************************************************)
EXTENDS Integers, Sequences, FiniteSets, TLC

(* ------------------------------ bounds -------------------------------- *)

\* most rows in the data array of one response, and in the daily_readiness
\* and daily_sleep tables handed to create_feature_summary
MaxRows == 2

\* most rows in the daily_activity and daily_stress tables handed to
\* create_feature_summary
MaxSideRows == 1

\* most distinct calendar days the rows carry
MaxDay == 2

(* --------------------------- small helpers ---------------------------- *)

Range(s) == {s[i] : i \in 1..Len(s)}

SeqsUpTo(S, n) == UNION {[1..k -> S] : k \in 0..n}

\* the sequences of at most n numbers of 1..d in ascending order, repeats included
AscendingSeqs(d, n) == {s \in SeqsUpTo(1..d, n) : \A i \in 1..(Len(s) - 1) : s[i] <= s[i + 1]}

NoDup(s) == \A i, j \in 1..Len(s) : s[i] = s[j] => i = j

(* ------------------- datetime.date (proleptic Gregorian) -------------- *)

DaysInMonthTable == <<31, 28, 31, 30, 31, 30, 31, 31, 30, 31, 30, 31>>

DaysBeforeMonthTable == <<0, 31, 59, 90, 120, 151, 181, 212, 243, 273, 304, 334>>

IsLeap(y) == y % 4 = 0 /\ (y % 100 # 0 \/ y % 400 = 0)

DaysBeforeYear(y) == (y - 1) * 365 + (y - 1) \div 4 - (y - 1) \div 100 + (y - 1) \div 400

DaysInMonth(y, m) == IF m = 2 /\ IsLeap(y) THEN 29 ELSE DaysInMonthTable[m]

DaysBeforeMonth(y, m) == DaysBeforeMonthTable[m] + (IF m > 2 /\ IsLeap(y) THEN 1 ELSE 0)

\* date(y, m, d).toordinal()
Ymd2Ord(y, m, d) == DaysBeforeYear(y) + DaysBeforeMonth(y, m) + d

\* date.fromordinal(n) as <<year, month, day>>
Ord2Ymd(ord) ==
    LET n0   == ord - 1
        n400 == n0 \div 146097
        r400 == n0 % 146097
        n100 == r400 \div 36524
        r100 == r400 % 36524
        n4   == r100 \div 1461
        r4   == r100 % 1461
        n1   == r4 \div 365
        n    == r4 % 365
        year == n400 * 400 + 1 + n100 * 100 + n4 * 4 + n1
        leap == n1 = 3 /\ (n4 # 24 \/ n100 = 3)
        m0   == (n + 50) \div 32
        p0   == DaysBeforeMonthTable[m0] + (IF m0 > 2 /\ leap THEN 1 ELSE 0)
        month == IF p0 > n THEN m0 - 1 ELSE m0
        prec == IF p0 > n
                THEN p0 - (DaysInMonthTable[m0 - 1] + (IF m0 - 1 = 2 /\ leap THEN 1 ELSE 0))
                ELSE p0
    IN  IF n1 = 4 \/ n100 = 4
        THEN <<year - 1, 12, 31>>
        ELSE <<year, month, n - prec + 1>>

DigitChar == <<"0", "1", "2", "3", "4", "5", "6", "7", "8", "9">>

Digits2(n) == <<DigitChar[((n \div 10) % 10) + 1], DigitChar[(n % 10) + 1]>>

Digits4(n) == Digits2(n \div 100) \o Digits2(n % 100)

\* date.isoformat(): "YYYY-MM-DD"
isoformat(ord) ==
    LET ymd == Ord2Ymd(ord)
    IN  Digits4(ymd[1]) \o <<"-">> \o Digits2(ymd[2]) \o <<"-">> \o Digits2(ymd[3])

\* the smallest date, date.min = 0001-01-01, has ordinal 1: date - timedelta
\* raises OverflowError below it
DateInRange(ord) == ord >= 1 /\ ord <= 3652059

\* get_date_range counting the run date as the first day of the window
get_date_range_inclusive(today, days_back) ==
    LET end_date   == today
        start_date == end_date - days_back + 1
    IN  IF DateInRange(start_date)
        THEN [raised |-> "", start_date |-> isoformat(start_date), end_date |-> isoformat(end_date)]
        ELSE [raised |-> "OverflowError", start_date |-> <<>>, end_date |-> <<>>]

\* get_date_range(days_back): the pair of ISO strings, or OverflowError
get_date_range(today, days_back) ==
    LET end_date   == today
        start_date == end_date - days_back
    IN  IF DateInRange(start_date)
        THEN [raised |-> "", start_date |-> isoformat(start_date), end_date |-> isoformat(end_date)]
        ELSE [raised |-> "OverflowError", start_date |-> <<>>, end_date |-> <<>>]

(* ----------------------------- DataFrames ----------------------------- *)

\* the missing value a left join fills unmatched cells with
NaN == <<"NaN", 0, "NaN">>

\* the value of the join key "day" of a record of calendar day d
DayVal(d) == <<"day", d, "day">>

\* the value of field k of the i-th record of dataset name
Cell(name, i, k) == <<name, i, k>>

\* pd.DataFrame(): no columns, no rows
EmptyDF == [cols |-> <<>>, rows |-> <<>>]

\* the position of label c among the labels cs
IndexOf(cs, c) == CHOOSE j \in 1..Len(cs) : cs[j] = c

\* df[c] at row i
At(df, i, c) == df.rows[i][IndexOf(df.cols, c)]

\* the keys of a list of JSON objects in order of first appearance
RECURSIVE UnionKeys(_, _, _)
UnionKeys(records, i, acc) ==
    IF i > Len(records) THEN acc
    ELSE LET ks  == records[i].keys
             new == SelectSeq(ks, LAMBDA k : k \notin Range(acc))
         IN  UnionKeys(records, i + 1, acc \o new)

\* pd.DataFrame(list of JSON objects): the columns are the union of the keys
\* seen, one row per object, NaN where an object lacks a key
DataFrame(records) ==
    LET cs == UnionKeys(records, 1, <<>>)
    IN  [cols |-> cs,
         rows |-> [i \in 1..Len(records) |->
                     [j \in 1..Len(cs) |->
                        IF cs[j] \in Range(records[i].keys) THEN records[i].val[cs[j]] ELSE NaN]]]

\* len(df) == 0 in place of df.empty
empty_no_rows(df) == Len(df.rows) = 0

\* DataFrame.empty: some axis has length 0
empty(df) == Len(df.rows) = 0 \/ Len(df.cols) = 0

\* df[cols]: projection to a list of labels, KeyError when one is missing
Project(df, cs) ==
    IF \E j \in 1..Len(cs) : cs[j] \notin Range(df.cols)
    THEN [raised |-> "KeyError", df |-> EmptyDF]
    ELSE [raised |-> "",
          df |-> [cols |-> cs,
                  rows |-> [i \in 1..Len(df.rows) |->
                              [j \in 1..Len(cs) |-> At(df, i, cs[j])]]]]

\* df.rename(columns={old: new})
Rename(df, old, new) ==
    [cols |-> [j \in 1..Len(df.cols) |-> IF df.cols[j] = old THEN new ELSE df.cols[j]],
     rows |-> df.rows]

\* the labels both sides carry besides the join key
Overlap(left, right, on) == (Range(left.cols) \cap Range(right.cols)) \ {on}

\* the label of a column of one side in the merged table
Suffixed(c, overlap, suffix) == IF c \in overlap THEN c \o suffix ELSE c

\* a row without its cell at position k
Drop(row, k) == SubSeq(row, 1, k - 1) \o SubSeq(row, k + 1, Len(row))

\* how='inner': a left row no right row matches is dropped
RECURSIVE InnerJoinRows(_, _, _, _, _)
InnerJoinRows(left, right, kl, kr, i) ==
    IF i > Len(left.rows) THEN <<>>
    ELSE LET lrow == left.rows[i]
             ms   == SelectSeq(right.rows, LAMBDA r : r[kr] = lrow[kl])
         IN  [m \in 1..Len(ms) |-> lrow \o Drop(ms[m], kr)]
             \o InnerJoinRows(left, right, kl, kr, i + 1)

\* a join that pairs each left row with the right row at the same position
\* instead of the right row with the same key
RECURSIVE PositionalJoinRows(_, _, _, _, _)
PositionalJoinRows(left, right, kl, kr, i) ==
    IF i > Len(left.rows) THEN <<>>
    ELSE LET lrow == left.rows[i]
             here == IF i > Len(right.rows)
                     THEN <<lrow \o [j \in 1..(Len(right.cols) - 1) |-> NaN]>>
                     ELSE <<lrow \o Drop(right.rows[i], kr)>>
         IN  here \o PositionalJoinRows(left, right, kl, kr, i + 1)

\* the rows of a left join: every left row in order, once per right row with
\* the same key (in the right table's order), or once with NaN cells when
\* no right row has it
RECURSIVE LeftJoinRows(_, _, _, _, _)
LeftJoinRows(left, right, kl, kr, i) ==
    IF i > Len(left.rows) THEN <<>>
    ELSE LET lrow == left.rows[i]
             ms   == SelectSeq(right.rows, LAMBDA r : r[kr] = lrow[kl])
             here == IF Len(ms) = 0
                     THEN <<lrow \o [j \in 1..(Len(right.cols) - 1) |-> NaN]>>
                     ELSE [m \in 1..Len(ms) |-> lrow \o Drop(ms[m], kr)]
         IN  here \o LeftJoinRows(left, right, kl, kr, i + 1)

\* left.merge(right, on=on, how='left', suffixes=(lsuf, rsuf)): KeyError when
\* a side lacks the key, MergeError when the suffixes produce a duplicate label
merge(left, right, on, lsuf, rsuf) ==
    IF on \notin Range(left.cols) \/ on \notin Range(right.cols)
    THEN [raised |-> "KeyError", df |-> EmptyDF]
    ELSE LET ov == Overlap(left, right, on)
             kl == IndexOf(left.cols, on)
             kr == IndexOf(right.cols, on)
             rc == Drop(right.cols, kr)
             cs == [j \in 1..Len(left.cols) |-> Suffixed(left.cols[j], ov, lsuf)]
                   \o [j \in 1..Len(rc) |-> Suffixed(rc[j], ov, rsuf)]
         IN  IF ~NoDup(cs)
             THEN [raised |-> "MergeError", df |-> EmptyDF]
             ELSE [raised |-> "",
                   df |-> [cols |-> cs, rows |-> LeftJoinRows(left, right, kl, kr, 1)]]

\* df.to_csv(path, index=False): the header line, then one line per row with
\* the cells in column order, a missing value as the empty field
to_csv(df) ==
    [header |-> df.cols,
     lines  |-> [i \in 1..Len(df.rows) |->
                   [j \in 1..Len(df.cols) |-> IF df.rows[i][j] = NaN THEN <<>> ELSE df.rows[i][j]]]]

(* ----------------------------- API client ----------------------------- *)

\* what requests.get(...), raise_for_status() and response.json() end in: a
\* connection error, a non-2xx status, a body that is not JSON (all three are
\* requests.exceptions.RequestException), or a decoded JSON object
TransportFailures == {"ConnectionError", "HTTPError", "JSONDecodeError"}

\* a decoded JSON object: its top-level keys and the value of its data key
Body(keys, data) == [keys |-> keys, data |-> data]

Response(kind, body) == [kind |-> kind, body |-> body]

Params(start_date, end_date) == [start_date |-> start_date, end_date |-> end_date]

\* the exceptions `except requests.exceptions.RequestException` catches
RequestException == {"ConnectionError", "HTTPError", "JSONDecodeError"}

\* _make_request catching only ConnectionError and HTTPError
make_request_narrow(endpoint, params, response) ==
    IF response.kind \in TransportFailures
    THEN IF response.kind \in {"ConnectionError", "HTTPError"}
         THEN [none |-> TRUE, raised |-> "", printed |-> "Error fetching", json |-> Body({}, <<>>)]
         ELSE [none |-> TRUE, raised |-> response.kind, printed |-> "", json |-> Body({}, <<>>)]
    ELSE [none |-> FALSE, raised |-> "", printed |-> "", json |-> response.body]

\* _make_request: the decoded body, or None after a caught RequestException;
\* raised names an exception that leaves the method
make_request(endpoint, params, response) ==
    IF response.kind \in TransportFailures
    THEN IF response.kind \in RequestException
         THEN [none |-> TRUE, raised |-> "", printed |-> "Error fetching", json |-> Body({}, <<>>)]
         ELSE [none |-> TRUE, raised |-> response.kind, printed |-> "", json |-> Body({}, <<>>)]
    ELSE [none |-> FALSE, raised |-> "", printed |-> "", json |-> response.body]

\* the shape the six fetchers share: `if data and 'data' in data`
FrameOf(data) ==
    IF ~data.none /\ data.json.keys # {} /\ "data" \in data.json.keys
    THEN DataFrame(data.json.data)
    ELSE EmptyDF

\* what a fetcher gives its caller: the request it made, and the table it
\* returns or the exception that passes through it
Fetched(endpoint, start_date, end_date, response) ==
    LET params == Params(start_date, end_date)
        data   == make_request(endpoint, params, response)
    IN  [endpoint |-> endpoint, params |-> params, raised |-> data.raised,
         df |-> IF data.raised # "" THEN EmptyDF ELSE FrameOf(data)]

fetch_daily_sleep(start_date, end_date, response) ==
    Fetched("daily_sleep", start_date, end_date, response)

fetch_daily_readiness(start_date, end_date, response) ==
    Fetched("daily_readiness", start_date, end_date, response)

fetch_daily_activity(start_date, end_date, response) ==
    Fetched("daily_activity", start_date, end_date, response)

fetch_heart_rate(start_date, end_date, response) ==
    Fetched("heartrate", start_date, end_date, response)

fetch_daily_stress(start_date, end_date, response) ==
    Fetched("daily_stress", start_date, end_date, response)

fetch_sleep_time_series(start_date, end_date, response) ==
    Fetched("sleep", start_date, end_date, response)

\* the datasets dict with heart_rate and daily_stress exchanged
datasets_reordered ==
    <<"daily_sleep", "daily_readiness", "daily_activity",
      "daily_stress", "heart_rate", "sleep_time_series">>

\* the keys of the datasets dict of collect_all_data, in insertion order
datasets ==
    <<"daily_sleep", "daily_readiness", "daily_activity",
      "heart_rate", "daily_stress", "sleep_time_series">>

\* datasets[name](start_date, end_date)
fetch_func(name, start_date, end_date, response) ==
    CASE name = "daily_sleep"       -> fetch_daily_sleep(start_date, end_date, response)
      [] name = "daily_readiness"   -> fetch_daily_readiness(start_date, end_date, response)
      [] name = "daily_activity"    -> fetch_daily_activity(start_date, end_date, response)
      [] name = "heart_rate"        -> fetch_heart_rate(start_date, end_date, response)
      [] name = "daily_stress"      -> fetch_daily_stress(start_date, end_date, response)
      [] name = "sleep_time_series" -> fetch_sleep_time_series(start_date, end_date, response)

\* os.path.join(output_dir, f"{name}.csv")
CsvPath(name) == name \o ".csv"

FeaturesPath == "daily_features.csv"

\* files with path p holding content c
WriteFile(fs, p, c) == [q \in DOMAIN fs \cup {p} |-> IF q = p THEN c ELSE fs[q]]

\* results[name] = df
Put(d, name, df) == [q \in DOMAIN d \cup {name} |-> IF q = name THEN df ELSE d[q]]

(* ----------------------- feature summary merger ----------------------- *)

\* the sleep step without the rename of score
MergeSleep_no_rename(acc, data_dict) ==
    IF acc.raised # "" THEN acc
    ELSE IF empty(data_dict["daily_sleep"]) THEN acc
    ELSE LET sleep_cols == <<"day", "score", "contributors">>
             p == Project(data_dict["daily_sleep"], sleep_cols)
         IN  IF p.raised # "" THEN p
             ELSE merge(acc.df, p.df, "day", "", "_sleep")

\* the sleep step: project, rename score, left join with suffixes ('', '_sleep')
MergeSleep(acc, data_dict) ==
    IF acc.raised # "" THEN acc
    ELSE IF empty(data_dict["daily_sleep"]) THEN acc
    ELSE LET sleep_cols == <<"day", "score", "contributors">>
             p == Project(data_dict["daily_sleep"], sleep_cols)
         IN  IF p.raised # "" THEN p
             ELSE merge(acc.df, Rename(p.df, "score", "sleep_score"), "day", "", "_sleep")

\* the activity step: the same with activity_score and ('', '_activity')
MergeActivity(acc, data_dict) ==
    IF acc.raised # "" THEN acc
    ELSE IF "daily_activity" \notin DOMAIN data_dict THEN acc
    ELSE IF empty(data_dict["daily_activity"]) THEN acc
    ELSE LET activity_cols == <<"day", "score", "contributors">>
             p == Project(data_dict["daily_activity"], activity_cols)
         IN  IF p.raised # "" THEN p
             ELSE merge(acc.df, Rename(p.df, "score", "activity_score"), "day", "", "_activity")

\* the stress step: project, left join with pandas' default suffixes
MergeStress(acc, data_dict) ==
    IF acc.raised # "" THEN acc
    ELSE IF "daily_stress" \notin DOMAIN data_dict THEN acc
    ELSE IF empty(data_dict["daily_stress"]) THEN acc
    ELSE LET stress_cols == <<"day", "stress_high", "recovery_high">>
             p == Project(data_dict["daily_stress"], stress_cols)
         IN  IF p.raised # "" THEN p
             ELSE merge(acc.df, p.df, "day", "_x", "_y")

\* create_feature_summary writing an empty summary file when an input is missing
create_feature_summary_empty_file(data_dict, fs) ==
    IF "daily_sleep" \notin DOMAIN data_dict \/ "daily_readiness" \notin DOMAIN data_dict
    THEN [kind |-> "None", raised |-> "", df |-> EmptyDF,
          files |-> WriteFile(fs, FeaturesPath, to_csv(EmptyDF)),
          printed |-> "Missing required datasets for feature summary"]
    ELSE LET start == [raised |-> "", df |-> data_dict["daily_readiness"]]
             out   == MergeStress(MergeActivity(MergeSleep(start, data_dict), data_dict), data_dict)
         IN  IF out.raised # ""
             THEN [kind |-> "raise", raised |-> out.raised, df |-> EmptyDF, files |-> fs,
                   printed |-> ""]
             ELSE [kind |-> "table", raised |-> "", df |-> out.df,
                   files |-> WriteFile(fs, FeaturesPath, to_csv(out.df)),
                   printed |-> "Created feature summary"]

\* create_feature_summary(data_dict): what it returns or raises, and the
\* file system it leaves
create_feature_summary(data_dict, fs) ==
    IF "daily_sleep" \notin DOMAIN data_dict \/ "daily_readiness" \notin DOMAIN data_dict
    THEN [kind |-> "None", raised |-> "", df |-> EmptyDF, files |-> fs,
          printed |-> "Missing required datasets for feature summary"]
    ELSE LET start == [raised |-> "", df |-> data_dict["daily_readiness"]]
             out   == MergeStress(MergeActivity(MergeSleep(start, data_dict), data_dict), data_dict)
         IN  IF out.raised # ""
             THEN [kind |-> "raise", raised |-> out.raised, df |-> EmptyDF, files |-> fs,
                   printed |-> ""]
             ELSE [kind |-> "table", raised |-> "", df |-> out.df,
                   files |-> WriteFile(fs, FeaturesPath, to_csv(out.df)),
                   printed |-> "Created feature summary"]

(* ------------------------------- inputs ------------------------------- *)

\* the run date datetime.now().date() yields in a run of main: 2026-11-06
RunDates == {739926}

\* run dates for the date window: 2024-02-29, 2024-03-01, 2024-12-31,
\* 2025-01-01 and 2026-11-06 as ordinals
Todays == {738945, 738946, 739251, 739252, 739926}

\* the days_back a caller of collect_all_data passes: short and long windows,
\* and windows that start at, just after and before 0001-01-01
ApiDaysBack ==
    {0, 1, 2, 59, 60, 300, 365, 366, 1461, 36524, 146097,
     738944, 738945, 739925, 739926, 740000}

\* what the operator types at the prompt
TokenInputs == {<<>>, <<" ">>, <<" ", " ">>, <<"t">>, <<" ", "t", " ">>}

\* the fields the rows of a response of each dataset carry: the fields the
\* merger reads, fewer fields, or none at all
KeySeqs(name) ==
    CASE name = "daily_sleep"       -> {<<"day", "score", "contributors">>, <<"day", "score">>, <<>>}
      [] name = "daily_readiness"   -> {<<"day", "score", "contributors">>, <<"day", "score">>,
                                        <<"score">>, <<>>}
      [] name = "daily_activity"    -> {<<"day", "score", "contributors">>, <<"day", "score">>, <<>>}
      [] name = "heart_rate"        -> {<<"bpm", "timestamp">>, <<>>}
      [] name = "daily_stress"      -> {<<"day", "stress_high", "recovery_high">>, <<"day">>, <<>>}
      [] name = "sleep_time_series" -> {<<"day", "hypnogram">>, <<>>}

\* a data array: one JSON object per entry of days, with the given keys
Records(name, keys, days) ==
    [i \in 1..Len(days) |->
       [keys |-> keys,
        val  |-> [k \in Range(keys) |-> IF k = "day" THEN DayVal(days[i]) ELSE Cell(name, i, k)]]]

\* the days of the rows of a response: day 1, days 1 and 2, ...
RunDays == {[i \in 1..n |-> ((i - 1) % MaxDay) + 1] : n \in 1..MaxRows}

\* a failed request, an empty data array, or one row with every field
FewResponses(name) ==
    {Response("HTTPError", Body({}, <<>>)),
     Response("ok", Body({"data"}, <<>>))}
    \cup {Response("ok", Body({"data"}, Records(name, ks, <<1>>))) :
            ks \in {x \in KeySeqs(name) : \A y \in KeySeqs(name) : Len(y) <= Len(x)}}

\* the tables a caller of create_feature_summary passes for a dataset: rows
\* of any days, with the fields the merger reads, or pd.DataFrame()
MergeKeySeqs(name) ==
    CASE name = "daily_readiness" -> {<<"day", "score", "contributors">>, <<"day", "score">>}
      [] name = "daily_stress"    -> {<<"day", "stress_high", "recovery_high">>}
      [] OTHER                    -> {<<"day", "score", "contributors">>}

RowsOf(name) == IF name \in {"daily_readiness", "daily_sleep"} THEN MaxRows ELSE MaxSideRows

MergeTables(name) ==
    {EmptyDF}
    \cup {[cols |-> ks, rows |-> DataFrame(Records(name, ks, ds)).rows] :
            ks \in MergeKeySeqs(name), ds \in AscendingSeqs(MaxDay, RowsOf(name))}

MergeNames == {"daily_readiness", "daily_sleep", "daily_activity", "daily_stress"}

\* a dataset of a collection: absent, or one of its tables
Entries(name) ==
    {[present |-> FALSE, df |-> EmptyDF]} \cup {[present |-> TRUE, df |-> t] : t \in MergeTables(name)}

\* the collection holding the present ones of four entries
DictOf(r, s, a, t) ==
    LET e == [n \in MergeNames |->
                CASE n = "daily_readiness" -> r
                  [] n = "daily_sleep"     -> s
                  [] n = "daily_activity"  -> a
                  [] n = "daily_stress"    -> t]
    IN  [n \in {m \in MergeNames : e[m].present} |-> e[n].df]

\* the collections a caller of create_feature_summary passes
DataDicts ==
    {DictOf(r, s, a, t) : r \in Entries("daily_readiness"), s \in Entries("daily_sleep"),
                          a \in Entries("daily_activity"), t \in Entries("daily_stress")}

\* the responses an endpoint may give
Responses(name) ==
    {Response(k, Body({}, <<>>)) : k \in TransportFailures}
    \cup {Response("ok", Body({}, <<>>)),
          Response("ok", Body({"detail"}, <<>>)),
          Response("ok", Body({"data"}, <<>>))}
    \cup {Response("ok", Body({"data"}, Records(name, <<>>, <<1>>)))}
    \cup {Response("ok", Body({"data"}, Records(name, ks, ds))) :
            ks \in KeySeqs(name) \ {<<>>}, ds \in RunDays}

(* ------------------------------- state -------------------------------- *)

VARIABLES
    pc,          \* where the run is: start, collect, fetch, summary, done, crashed
    caller,      \* "main" or "api" (collect_all_data called directly)
    token,       \* the token the collector was constructed with
    today,       \* the run date
    days_back,   \* the argument of collect_all_data
    window,      \* the (start_date, end_date) pair of collect_all_data
    dirExists,   \* the output directory exists
    files,       \* the files of the output directory: path -> content
    requests,    \* the GET requests issued so far, in order
    idx,         \* the position of the loop over datasets
    results,     \* the collection collect_all_data builds: name -> DataFrame
    fetched,     \* name -> the shape of the table its fetcher returned
    last,        \* the last response and what the fetcher made of it
    summary,     \* what create_feature_summary returned
    raised,      \* the exception that ended the run, "" when none
    called,      \* the methods called so far
    console      \* the last message printed

vars == <<pc, caller, token, today, days_back, window, dirExists, files, requests,
          idx, results, fetched, last, summary, raised, called, console>>

Empty == [x \in {} |-> EmptyDF]

NoWindow == [start_date |-> <<>>, end_date |-> <<>>]

NoFetch == [name |-> "", kind |-> "", keys |-> {}, ndata |-> 0]

NoSummary == [kind |-> "", df |-> EmptyDF]

Init ==
    /\ pc = "start"
    /\ caller = ""
    /\ token = <<>>
    /\ today = 0
    /\ days_back = 0
    /\ window = NoWindow
    /\ dirExists = FALSE
    /\ files = Empty
    /\ requests = <<>>
    /\ idx = 0
    /\ results = Empty
    /\ fetched = Empty
    /\ last = NoFetch
    /\ summary = NoSummary
    /\ raised = ""
    /\ called = {}
    /\ console = ""

(* ------------------------------ actions ------------------------------- *)

\* str.strip() over the characters " " and "t"
RECURSIVE lstrip(_)
lstrip(s) == IF Len(s) > 0 /\ Head(s) = " " THEN lstrip(Tail(s)) ELSE s

RECURSIVE rstrip(_)
rstrip(s) == IF Len(s) > 0 /\ s[Len(s)] = " " THEN rstrip(SubSeq(s, 1, Len(s) - 1)) ELSE s

strip(s) == rstrip(lstrip(s))

\* main without the return after "Error: No token provided"
main_no_return(input) ==
    /\ pc = "start"
    /\ token' = strip(input)
    /\ caller' = "main"
    /\ console' = IF token' = <<>> THEN "Error: No token provided"
                  ELSE "Collecting Oura Ring data..."
    /\ pc' = "collect"
    /\ days_back' = 300
    /\ UNCHANGED <<today, window, dirExists, files, requests, idx, results, fetched,
                   last, summary, raised, called>>

\* main, up to the call of collect_all_data(days_back=300)
main(input) ==
    /\ pc = "start"
    /\ token' = strip(input)
    /\ caller' = "main"
    /\ IF token' = <<>>
       THEN /\ console' = "Error: No token provided"
            /\ pc' = "done"
            /\ days_back' = days_back
       ELSE /\ console' = "Collecting Oura Ring data..."
            /\ pc' = "collect"
            /\ days_back' = 300
    /\ UNCHANGED <<today, window, dirExists, files, requests, idx, results, fetched,
                   last, summary, raised, called>>

\* OuraDataCollector(token).collect_all_data(days_back) called by other code
ApiCall(db) ==
    /\ pc = "start"
    /\ token' = <<"t">>
    /\ caller' = "api"
    /\ days_back' = db
    /\ pc' = "collect"
    /\ UNCHANGED <<today, window, dirExists, files, requests, idx, results, fetched,
                   last, summary, raised, called, console>>

\* collect_all_data up to its loop: makedirs, get_date_range
collect_all_data_enter(now) ==
    /\ pc = "collect"
    /\ called' = called \cup {"collect_all_data"}
    /\ dirExists' = TRUE
    /\ today' = now
    /\ LET r == get_date_range(now, days_back)
       IN  IF r.raised # ""
           THEN /\ raised' = r.raised
                /\ pc' = "crashed"
                /\ UNCHANGED <<window, idx, console>>
           ELSE /\ window' = [start_date |-> r.start_date, end_date |-> r.end_date]
                /\ idx' = 1
                /\ pc' = "fetch"
                /\ console' = "Fetching data from"
                /\ UNCHANGED raised
    /\ UNCHANGED <<caller, token, days_back, files, requests, results, fetched, last, summary>>

\* one round of the loop of collect_all_data: fetch, save, record
collect_all_data_fetch(response) ==
    /\ pc = "fetch"
    /\ idx <= Len(datasets)
    /\ \E name \in {datasets[idx]} :
       \E f \in {fetch_func(name, window.start_date, window.end_date, response)} :
           /\ requests' = Append(requests, [endpoint |-> f.endpoint, params |-> f.params])
           /\ last' = [name |-> name, kind |-> response.kind, keys |-> response.body.keys,
                       ndata |-> Len(response.body.data)]
           /\ IF f.raised # ""
              THEN /\ raised' = f.raised
                   /\ pc' = "crashed"
                   /\ UNCHANGED <<fetched, files, results, console, idx>>
              ELSE /\ fetched' = Put(fetched, name,
                                     [nrows |-> Len(f.df.rows), ncols |-> Len(f.df.cols)])
                   /\ IF ~empty(f.df)
                      THEN /\ files' = WriteFile(files, CsvPath(name), to_csv(f.df))
                           /\ results' = Put(results, name, f.df)
                           /\ console' = "Saved records"
                      ELSE /\ console' = "No data available"
                           /\ UNCHANGED <<files, results>>
                   /\ idx' = idx + 1
                   /\ UNCHANGED <<pc, raised>>
    /\ UNCHANGED <<caller, token, today, days_back, window, dirExists, summary, called>>

\* collect_all_data returns; main goes on to the summary `if data:`
collect_all_data_return ==
    /\ pc = "fetch"
    /\ idx > Len(datasets)
    /\ pc' = IF caller = "main" /\ DOMAIN results # {} THEN "summary" ELSE "done"
    /\ UNCHANGED <<caller, token, today, days_back, window, dirExists, files, requests,
                   idx, results, fetched, last, summary, raised, called, console>>

\* create_feature_summary(data) and the rest of main
summarise ==
    /\ pc = "summary"
    /\ called' = called \cup {"create_feature_summary"}
    /\ \E r \in {create_feature_summary(results, files)} :
           /\ summary' = [kind |-> r.kind, df |-> r.df]
           /\ files' = r.files
           /\ raised' = r.raised
           /\ pc' = IF r.raised # "" THEN "crashed" ELSE "done"
           /\ console' = IF r.raised # "" THEN console
                         ELSE IF caller = "main" THEN "Data collection complete!"
                         ELSE r.printed
    /\ UNCHANGED <<caller, token, today, days_back, window, dirExists, requests, idx,
                   results, fetched, last>>

\* a run of main
Next ==
    \/ \E input \in TokenInputs : main(input)
    \/ \E now \in RunDates : collect_all_data_enter(now)
    \/ \E name \in Range(datasets) : \E response \in Responses(name) :
          idx \in 1..Len(datasets) /\ name = datasets[idx] /\ collect_all_data_fetch(response)
    \/ collect_all_data_return
    \/ summarise

Spec == Init /\ [][Next]_vars

\* collect_all_data called with any days_back on any run date
NextWindow ==
    \/ \E db \in ApiDaysBack : ApiCall(db)
    \/ \E now \in Todays : collect_all_data_enter(now)
    \/ \E name \in Range(datasets) : \E response \in FewResponses(name) :
          idx \in 1..Len(datasets) /\ name = datasets[idx] /\ collect_all_data_fetch(response)
    \/ collect_all_data_return

SpecWindow == Init /\ [][NextWindow]_vars

\* the files collect_all_data wrote for a collection
FilesOf(d) ==
    [q \in {CsvPath(n) : n \in {m \in DOMAIN d : ~empty(d[m])}} |->
       to_csv(d[CHOOSE n \in DOMAIN d : CsvPath(n) = q])]

\* create_feature_summary called with any collection
InitMerge ==
    /\ pc = "summary"
    /\ caller = "api"
    /\ token = <<"t">>
    /\ today = 0
    /\ days_back = 0
    /\ window = NoWindow
    /\ dirExists = TRUE
    /\ results \in DataDicts
    /\ files = FilesOf(results)
    /\ requests = <<>>
    /\ idx = 0
    /\ fetched = Empty
    /\ last = NoFetch
    /\ summary = NoSummary
    /\ raised = ""
    /\ called = {}
    /\ console = ""

NextMerge == summarise

SpecMerge == InitMerge /\ [][NextMerge]_vars

(* ------------------------------ properties ---------------------------- *)

Names == {"daily_sleep", "daily_readiness", "daily_activity",
          "heart_rate", "daily_stress", "sleep_time_series"}

\* the endpoint suffixes in the order the claims give
ExpectedEndpoints == <<"daily_sleep", "daily_readiness", "daily_activity",
                       "heartrate", "daily_stress", "sleep">>

\* the loop of collect_all_data has ended
Returned == "collect_all_data" \in called /\ idx > 6

HasCol(df, c) == c \in Range(df.cols)

\* the day column of a table, top to bottom
DaySeq(df) == IF HasCol(df, "day") THEN [i \in 1..Len(df.rows) |-> At(df, i, "day")] ELSE <<>>

DaysOf(df) == Range(DaySeq(df))

\* the dataset is merged by create_feature_summary
Merged(d, n) == n \in DOMAIN d /\ ~empty(d[n])

Ready(d) == "daily_readiness" \in DOMAIN d /\ "daily_sleep" \in DOMAIN d

\* date.fromisoformat
DigitVal(c) == (CHOOSE i \in 1..10 : DigitChar[i] = c) - 1

FromIso(str) ==
    Ymd2Ord(DigitVal(str[1]) * 1000 + DigitVal(str[2]) * 100 + DigitVal(str[3]) * 10 + DigitVal(str[4]),
            DigitVal(str[6]) * 10 + DigitVal(str[7]),
            DigitVal(str[9]) * 10 + DigitVal(str[10]))

(* C1: whenever create_feature_summary returns a table, the set of day      *)
(* values of the table equals the set of day values of daily_readiness:     *)
(* no readiness day is lost and no day of sleep, activity or stress alone   *)
(* appears.                                                                 *)
C1_DaySet ==
    summary.kind = "table" => DaysOf(summary.df) = DaysOf(results["daily_readiness"])

\* a table returned after all three merges, with a readiness day sleep lacks
\* and a sleep day and an activity day readiness lacks
C1_Witness ==
    /\ summary.kind = "table"
    /\ \A n \in MergeNames : Merged(results, n)
    /\ DaysOf(results["daily_readiness"]) \ DaysOf(results["daily_sleep"]) # {}
    /\ DaysOf(results["daily_sleep"]) \ DaysOf(results["daily_readiness"]) # {}
    /\ DaysOf(results["daily_activity"]) \ DaysOf(results["daily_readiness"]) # {}

(* C2: create_feature_summary called with a collection lacking              *)
(* daily_readiness or daily_sleep returns None, writes no                   *)
(* daily_features.csv and leaves the files already written unchanged.       *)
C2_MissingInput ==
    [][(pc = "summary" /\ ~Ready(results))
         => (summary'.kind = "None" /\ raised' = "" /\ files' = files
             /\ FeaturesPath \notin DOMAIN files')]_vars

\* the call returned None for a collection with readiness but no sleep, with
\* the readiness file on disk
C2_Witness ==
    /\ pc = "done"
    /\ "create_feature_summary" \in called
    /\ summary.kind = "None"
    /\ "daily_sleep" \notin DOMAIN results
    /\ Merged(results, "daily_readiness")
    /\ CsvPath("daily_readiness") \in DOMAIN files

(* C3 as stated: after collect_all_data returns, for each dataset name:     *)
(* in the collection <=> its fetcher returned at least one row <=> its      *)
(* file was written.                                                        *)
C3_Original ==
    Returned =>
        /\ DOMAIN results \subseteq Names
        /\ \A n \in Names :
             /\ n \in DOMAIN results <=> fetched[n].nrows >= 1
             /\ n \in DOMAIN results <=> CsvPath(n) \in DOMAIN files

(* C3 amended: after collect_all_data returns, for each dataset name: in    *)
(* the collection <=> its fetcher returned a table with at least one row    *)
(* and at least one column <=> its file was written (holding that table);   *)
(* no zero-row result is in the collection, no other key is ever present.   *)
C3_NonEmptyRecorded ==
    /\ DOMAIN results \subseteq Names
    /\ Returned =>
         \A n \in Names :
            /\ n \in DOMAIN results <=> (fetched[n].nrows >= 1 /\ fetched[n].ncols >= 1)
            /\ n \in DOMAIN results <=> CsvPath(n) \in DOMAIN files
            /\ n \in DOMAIN results => files[CsvPath(n)] = to_csv(results[n])
            /\ fetched[n].nrows = 0 => n \notin DOMAIN results /\ CsvPath(n) \notin DOMAIN files

\* the call returned with one dataset recorded, one with no rows and one
\* whose rows have no fields
C3_Witness ==
    /\ Returned
    /\ "daily_readiness" \in DOMAIN results
    /\ fetched["daily_sleep"].nrows = 0
    /\ fetched["daily_stress"].nrows >= 1 /\ fetched["daily_stress"].ncols = 0
    /\ "daily_stress" \notin DOMAIN results

(* C4: in one call of collect_all_data the six endpoints are requested      *)
(* exactly once each, in the fixed order, whatever the earlier endpoints    *)
(* answered: the i-th request of the call is the i-th endpoint, and the     *)
(* call returns after six requests.                                         *)
C4_FixedOrder ==
    "collect_all_data" \in called =>
        /\ Len(requests) <= 6
        /\ \A i \in 1..Len(requests) : requests[i].endpoint = ExpectedEndpoints[i]
        /\ pc = "fetch" => Len(requests) = idx - 1
        /\ Returned => Len(requests) = 6

\* the call returned after a transport failure on the first endpoint, an
\* empty array on the second and rows on the fifth
C4_Witness ==
    /\ Returned
    /\ Len(requests) = 6
    /\ fetched["daily_sleep"].nrows = 0
    /\ "daily_readiness" \notin DOMAIN results
    /\ "daily_stress" \in DOMAIN results
    /\ last.name = "sleep_time_series" /\ last.kind = "ConnectionError"

(* C5: a fetcher whose request ends in a connection error, a non-2xx        *)
(* status or a malformed body, or whose payload has no data key or an       *)
(* empty data array, returns a zero-row table and raises nothing;           *)
(* _make_request returns None in the three failure cases.                   *)
C5_FailSoft ==
    (/\ last.name # ""
     /\ "create_feature_summary" \notin called
     /\ (last.kind \in TransportFailures \/ "data" \notin last.keys \/ last.ndata = 0))
    => /\ raised = ""
       /\ pc # "crashed"
       /\ last.name \in DOMAIN fetched
       /\ fetched[last.name].nrows = 0
       /\ last.kind \in TransportFailures =>
            LET r == make_request(last.name, Params(window.start_date, window.end_date),
                                  Response(last.kind, Body({}, <<>>)))
            IN  r.none /\ r.raised = ""

\* the last fetcher got a malformed body after the others had answered
C5_Witness ==
    /\ last.name = "sleep_time_series"
    /\ last.kind = "JSONDecodeError"
    /\ fetched["sleep_time_series"].nrows = 0
    /\ pc = "fetch"

(* C6: in the table create_feature_summary returns, score holds             *)
(* daily_readiness's own score; the sleep score is only under sleep_score   *)
(* and the activity score only under activity_score (no score_sleep, no     *)
(* score_activity); contributors of daily_sleep is named contributors_sleep *)
(* exactly when the accumulator already has contributors, likewise          *)
(* contributors_activity at the activity step; the sleep and activity       *)
(* merges rename no column the accumulator already has.                     *)
C6_ColumnNaming ==
    summary.kind = "table" =>
        LET R    == results["daily_readiness"]
            T    == summary.df
            accS == MergeSleep([raised |-> "", df |-> R], results)
            accA == MergeActivity(accS, results)
            ColsOfCells(n, k) ==
                {T.cols[j] : j \in {x \in 1..Len(T.cols) :
                    \E i \in 1..Len(T.rows) : T.rows[i][x][1] = n /\ T.rows[i][x][3] = k}}
        IN  /\ HasCol(R, "score") =>
                /\ HasCol(T, "score")
                /\ Len(T.rows) > 0 => ColsOfCells("daily_readiness", "score") = {"score"}
                /\ \A i \in 1..Len(T.rows) :
                     \E j \in 1..Len(R.rows) :
                        At(T, i, "score") = At(R, j, "score") /\ At(T, i, "day") = At(R, j, "day")
            /\ ~HasCol(T, "score_sleep") /\ ~HasCol(T, "score_activity")
            /\ ColsOfCells("daily_sleep", "score") \subseteq {"sleep_score"}
            /\ ColsOfCells("daily_activity", "score") \subseteq {"activity_score"}
            /\ Merged(results, "daily_sleep") =>
                 /\ HasCol(T, "sleep_score")
                 /\ HasCol(T, "contributors_sleep") <=> HasCol(R, "contributors")
                 /\ ColsOfCells("daily_sleep", "contributors") \subseteq
                      {IF HasCol(R, "contributors") THEN "contributors_sleep" ELSE "contributors"}
            /\ Merged(results, "daily_activity") =>
                 /\ HasCol(T, "activity_score")
                 /\ HasCol(T, "contributors_activity") <=> HasCol(accS.df, "contributors")
                 /\ ColsOfCells("daily_activity", "contributors") \subseteq
                      {IF HasCol(accS.df, "contributors") THEN "contributors_activity"
                       ELSE "contributors"}
            /\ SubSeq(accS.df.cols, 1, Len(R.cols)) = R.cols
            /\ SubSeq(accA.df.cols, 1, Len(accS.df.cols)) = accS.df.cols

\* a table whose readiness, sleep and activity inputs all carry score and
\* contributors, with a day all three share
C6_Witness ==
    /\ summary.kind = "table"
    /\ Merged(results, "daily_sleep") /\ Merged(results, "daily_activity")
    /\ HasCol(results["daily_readiness"], "contributors")
    /\ HasCol(summary.df, "contributors_sleep") /\ HasCol(summary.df, "contributors_activity")
    /\ \E i \in 1..Len(summary.df.rows) :
          /\ At(summary.df, i, "sleep_score") # NaN
          /\ At(summary.df, i, "activity_score") # NaN

\* what a merged-in column holds in the row of a readiness day
Carried(d, n, src, day) ==
    IF \E j \in 1..Len(d[n].rows) : At(d[n], j, "day") = day
    THEN At(d[n], CHOOSE j \in 1..Len(d[n].rows) : At(d[n], j, "day") = day, src)
    ELSE NaN

MergedColumns ==
    {<<"daily_sleep", "score", "sleep_score">>,
     <<"daily_activity", "score", "activity_score">>,
     <<"daily_stress", "stress_high", "stress_high">>,
     <<"daily_stress", "recovery_high", "recovery_high">>}

(* C7: when every source table has at most one row per day, the returned    *)
(* table has exactly the rows of daily_readiness, one per readiness row in  *)
(* order, and in each row sleep_score, activity_score, stress_high and      *)
(* recovery_high carry the value of the source row of the same day, or      *)
(* null when there is none.                                                 *)
C7_OneRowPerReadinessRow ==
    (/\ summary.kind = "table"
     /\ \A n \in DOMAIN results : NoDup(DaySeq(results[n])))
    => LET R == results["daily_readiness"]
           T == summary.df
       IN  /\ Len(T.rows) = Len(R.rows)
           /\ \A i \in 1..Len(T.rows) :
                /\ SubSeq(T.rows[i], 1, Len(R.cols)) = R.rows[i]
                /\ \A m \in MergedColumns :
                     Merged(results, m[1]) =>
                        /\ HasCol(T, m[3])
                        /\ At(T, i, m[3]) = Carried(results, m[1], m[2], At(R, i, "day"))

\* the scenario of the claim at the model's size: more readiness days than
\* sleep days, the unmatched day with a null sleep_score, the matched one
\* with sleep's score
C7_Witness ==
    /\ summary.kind = "table"
    /\ \A n \in DOMAIN results : NoDup(DaySeq(results[n]))
    /\ \A n \in MergeNames : Merged(results, n)
    /\ Len(results["daily_readiness"].rows) = MaxRows
    /\ Len(summary.df.rows) = MaxRows
    /\ \E i \in 1..Len(summary.df.rows) : At(summary.df, i, "sleep_score") = NaN
    /\ \E i \in 1..Len(summary.df.rows) : At(summary.df, i, "sleep_score")[1] = "daily_sleep"

(* C8: an empty or blank token makes main report the error and end: no      *)
(* request, no output directory, no file, and neither collect_all_data nor  *)
(* create_feature_summary is called.                                        *)
C8_EmptyTokenAborts ==
    /\ \A input \in TokenInputs :
          (\A i \in 1..Len(input) : input[i] = " ") => strip(input) = <<>>
    /\ (caller = "main" /\ token = <<>> /\ pc # "start") =>
          /\ pc = "done"
          /\ console = "Error: No token provided"
          /\ requests = <<>>
          /\ ~dirExists
          /\ files = Empty
          /\ called = {}
          /\ ~ENABLED Next

\* main ended on an empty token
C8_Witness ==
    caller = "main" /\ token = <<>> /\ pc = "done" /\ console = "Error: No token provided"

(* C9: for every non-empty token and every combination of per-endpoint      *)
(* outcomes main runs to its end without an unhandled error; the merger     *)
(* completes whenever daily_sleep and daily_readiness are present,          *)
(* whatever columns the tables have.                                        *)
C9_NoUnhandledError ==
    (caller = "main" /\ token # <<>>) => (raised = "" /\ pc # "crashed")

\* the window parses back to the run date and the date days_back days before
\* it, and every request made so far carries it
WindowAsClaimed ==
    /\ raised = ""
    /\ FromIso(window.end_date) = today
    /\ FromIso(window.end_date) - FromIso(window.start_date) = days_back
    /\ FromIso(window.start_date) <= FromIso(window.end_date)
    /\ \A i \in 1..Len(requests) :
          requests[i].params = [start_date |-> window.start_date, end_date |-> window.end_date]
    /\ Returned => Len(requests) = 6

(* C10 as stated: for every days_back >= 0 get_date_range returns a window  *)
(* whose end is the run date and whose length is days_back days, and        *)
(* collect_all_data passes the pair unchanged to all six fetchers.          *)
C10_Original ==
    ("collect_all_data" \in called /\ days_back >= 0) => WindowAsClaimed

(* C10 amended: for every days_back >= 0 that does not reach back before    *)
(* 0001-01-01 (days_back less than the ordinal of the run date) the window  *)
(* is as claimed and is passed unchanged to all six fetchers.               *)
C10_WindowInRange ==
    ("collect_all_data" \in called /\ days_back >= 0 /\ days_back < today) => WindowAsClaimed

\* a call on 2024-02-29 with days_back 366 that made its six requests
C10_Witness ==
    /\ Returned
    /\ today = 738945
    /\ days_back = 366
    /\ Len(requests) = 6
    /\ window.start_date = <<"2", "0", "2", "3", "-", "0", "2", "-", "2", "8">>

====
